---- MODULE Spec2Model ----
(***************************************************************************)
(* Gutenberg Word Counter (Final_Project.py).                              *)
(*                                                                         *)
(* The program is a Tk form with two handlers, search_title and fetch_url, *)
(* over one SQLite connection holding the relations Books(title) and       *)
(* Words(title, word, frequency).  Strings are modelled as sequences of    *)
(* one-character strings, so that the regular expressions, strip(),        *)
(* lower() and split() of the source are computed character by character. *)
(***************************************************************************)
EXTENDS Integers, Sequences, FiniteSets, TLC

VARIABLES
    Books,      \* rows of table Books: the set of titles (PRIMARY KEY)
    Words,      \* rows of table Words in rowid (insertion) order
    output,     \* content of the Text widget `output`
    call,       \* what the last handler invocation read, computed and did
    saved,      \* history: title -> ranking of each save_to_db that committed
    pc,         \* "gui": the form is running; "input"/"done": a function on its own
    tokens,     \* argument of count_top_10 when it is exercised on its own
    top_words,  \* its result
    text,       \* fetched text when the normalisation is exercised on its own
    words       \* its result

vars == <<Books, Words, output, call, saved, pc, tokens, top_words, text, words>>

(***************************************************************************)
(* Characters                                                              *)
(***************************************************************************)
AsciiUpper == <<"A","B","C","D","E","F","G","H","I","J","K","L","M",
                "N","O","P","Q","R","S","T","U","V","W","X","Y","Z">>
AsciiLower == <<"a","b","c","d","e","f","g","h","i","j","k","l","m",
                "n","o","p","q","r","s","t","u","v","w","x","y","z">>

IsAsciiUpper(c) == \E i \in DOMAIN AsciiUpper : AsciiUpper[i] = c
IsAsciiLower(c) == \E i \in DOMAIN AsciiLower : AsciiLower[i] = c
\* the class [a-zA-Z] of the regular expressions
IsAsciiLetter(c) == IsAsciiUpper(c) \/ IsAsciiLower(c)
\* the class \s of the regular expressions, and what strip() and split() remove
IsSpace(c) == c \in {" ", "\n", "\t"}

\* lower-casing of the ASCII letters only, every other character unchanged
AsciiToLower(c) ==
    IF IsAsciiUpper(c)
    THEN AsciiLower[CHOOSE i \in DOMAIN AsciiUpper : AsciiUpper[i] = c]
    ELSE c

\* str.lower() of Python on one character: Unicode aware.  The alphabet of
\* the model holds one letter outside ASCII, in both cases.
PyLowerChar(c) == IF c = "É" THEN "é" ELSE AsciiToLower(c)

MapSeq(s, Op(_)) == [i \in 1..Len(s) |-> Op(s[i])]

\* str.lower()
PyLower(s) == MapSeq(s, PyLowerChar)

Min(a, b) == IF a < b THEN a ELSE b

\* Body(v) with v computed once: a local variable of the source
With(v, Body(_)) == CHOOSE r \in {Body(x) : x \in {v}} : TRUE

(***************************************************************************)
(* str.strip(), str.split(), url.split("/")[-1]                            *)
(***************************************************************************)
strip(s) ==
    LET keep == {i \in 1..Len(s) : ~IsSpace(s[i])}
    IN  IF keep = {} THEN <<>>
        ELSE SubSeq(s, CHOOSE i \in keep : \A j \in keep : i <= j,
                       CHOOSE i \in keep : \A j \in keep : j <= i)

\* str.split() without argument: the maximal runs of non-whitespace
SplitStep(p, c) ==
    IF IsSpace(c)
    THEN [toks |-> IF p.cur = <<>> THEN p.toks ELSE Append(p.toks, p.cur),
          cur  |-> <<>>]
    ELSE [toks |-> p.toks, cur |-> Append(p.cur, c)]

split(s) ==
    LET F[i \in 0..Len(s)] ==
            IF i = 0 THEN [toks |-> <<>>, cur |-> <<>>]
            ELSE With(F[i - 1], LAMBDA p : SplitStep(p, s[i]))
    IN  With(F[Len(s)],
             LAMBDA e : IF e.cur = <<>> THEN e.toks ELSE Append(e.toks, e.cur))

\* url.split("/")[-1]: what follows the last "/", the whole string without one
url_basename(url) ==
    LET slashes == {i \in 1..Len(url) : url[i] = "/"}
    IN  IF slashes = {} THEN url
        ELSE SubSeq(url, (CHOOSE i \in slashes : \A j \in slashes : j <= i) + 1,
                    Len(url))

(***************************************************************************)
(* clean_text                                                              *)
(***************************************************************************)
\* re.sub(r'[^a-zA-Z\s]', '', text)
KeepLettersAndSpace(c) == IsAsciiLetter(c) \/ IsSpace(c)

clean_text(t) == With(PyLower(SelectSeq(t, KeepLettersAndSpace)), split)

(***************************************************************************)
(* count_top_10                                                            *)
(***************************************************************************)
MinWordLen == 4
TopN == 10

\* the dict `counts` as the sequence of its items in insertion order
DictIndex(d, w) == {i \in 1..Len(d) : d[i][1] = w}

\* lines 43-46: counts[word] += 1, or counts[word] = 1 for a new key
CountWord(d, w) ==
    IF DictIndex(d, w) # {}
    THEN [k \in 1..Len(d) |-> IF d[k][1] = w THEN <<w, d[k][2] + 1>> ELSE d[k]]
    ELSE Append(d, <<w, 1>>)

\* a count that forgets the length test of line 42
Counts_NoLengthTest(ws) ==
    LET F[i \in 0..Len(ws)] ==
            IF i = 0 THEN <<>>
            ELSE With(F[i - 1], LAMBDA d : CountWord(d, ws[i]))
    IN  F[Len(ws)]

\* lines 40-46: the loop that fills `counts`
Counts(ws) ==
    LET F[i \in 0..Len(ws)] ==
            IF i = 0 THEN <<>>
            ELSE With(F[i - 1],
                      LAMBDA d : IF Len(ws[i]) >= MinWordLen
                                 THEN CountWord(d, ws[i]) ELSE d)
    IN  F[Len(ws)]

\* list.sort(key=pair[1], reverse=True): stable, equal keys keep their order.
\* Each pair is inserted behind every pair whose frequency is not smaller.
InsertByFreq(sorted, p) ==
    LET before == {i \in 1..Len(sorted) : sorted[i][2] >= p[2]}
        n == Cardinality(before)
    IN  SubSeq(sorted, 1, n) \o <<p>> \o SubSeq(sorted, n + 1, Len(sorted))

SortByFreqDesc(l) ==
    LET F[i \in 0..Len(l)] ==
            IF i = 0 THEN <<>>
            ELSE With(F[i - 1], LAMBDA sorted : InsertByFreq(sorted, l[i]))
    IN  F[Len(l)]

\* the slice taken one too long
count_top_10_OffByOne(ws) ==
    With(SortByFreqDesc(With(ws, Counts)),
         LAMBDA word_list : SubSeq(word_list, 1, Min(TopN + 1, Len(word_list))))

count_top_10(ws) ==
    With(SortByFreqDesc(With(ws, Counts)),
         LAMBDA word_list : SubSeq(word_list, 1, Min(TopN, Len(word_list))))

(***************************************************************************)
(* fetch_url, lines 121-135: HTML detection, title extraction, tag         *)
(* stripping                                                               *)
(***************************************************************************)
HtmlMarker == <<"<","h","t","m","l">>
StrongOpen == <<"<","s","t","r","o","n","g",">">>
TitleWord == <<"t","i","t","l","e">>
StrongClose == <<"<","/","s","t","r","o","n","g",">">>
Colon == <<":">>
PClose == <<"<","/","p",">">>

\* "<html" in text.lower()
is_html(t) ==
    \E i \in 1..Len(t) :
        /\ i + Len(HtmlMarker) - 1 <= Len(t)
        /\ \A k \in 1..Len(HtmlMarker) : PyLowerChar(t[i + k - 1]) = HtmlMarker[k]

\* a literal of the pattern matched at position i under re.IGNORECASE
MatchLit(t, i, lit) ==
    /\ i + Len(lit) - 1 <= Len(t)
    /\ \A k \in 1..Len(lit) : AsciiToLower(t[i + k - 1]) = lit[k]

\* \s* (greedy): the first position from i on that holds no whitespace
SkipSpace(t, i) ==
    LET stops == {j \in i..(Len(t) + 1) : j = Len(t) + 1 \/ ~IsSpace(t[j])}
    IN  CHOOSE j \in stops : \A k \in stops : j <= k

\* r'<strong>\s*Title\s*</strong>\s*:\s*(.*?)</p>' tried at position i.
\* Every \s* is followed by a literal that starts with no whitespace, so the
\* greedy run is the only one that can match; (.*?) is lazy and `.` matches
\* no newline, so the group ends at the first "</p>" and the match fails
\* when a newline comes before it.
TitleMatchAt(t, i) ==
    IF ~MatchLit(t, i, StrongOpen) THEN [found |-> FALSE, group |-> <<>>]
    ELSE
    LET p1 == SkipSpace(t, i + Len(StrongOpen))
    IN  IF ~MatchLit(t, p1, TitleWord) THEN [found |-> FALSE, group |-> <<>>]
    ELSE
    LET p2 == SkipSpace(t, p1 + Len(TitleWord))
    IN  IF ~MatchLit(t, p2, StrongClose) THEN [found |-> FALSE, group |-> <<>>]
    ELSE
    LET p3 == SkipSpace(t, p2 + Len(StrongClose))
    IN  IF ~MatchLit(t, p3, Colon) THEN [found |-> FALSE, group |-> <<>>]
    ELSE
    LET p4 == SkipSpace(t, p3 + Len(Colon))
        ends == {q \in p4..Len(t) : MatchLit(t, q, PClose)}
    IN  IF ends = {} THEN [found |-> FALSE, group |-> <<>>]
        ELSE LET q == CHOOSE e \in ends : \A f \in ends : e <= f
             IN  IF \E k \in p4..(q - 1) : t[k] = "\n"
                 THEN [found |-> FALSE, group |-> <<>>]
                 ELSE [found |-> TRUE, group |-> SubSeq(t, p4, q - 1)]

\* re.search(...): the match at the leftmost position that has one
title_search(t) ==
    LET hits == {i \in 1..Len(t) : TitleMatchAt(t, i).found}
    IN  IF hits = {} THEN [found |-> FALSE, group |-> <<>>]
        ELSE TitleMatchAt(t, CHOOSE i \in hits : \A j \in hits : i <= j)

\* re.sub(r'<[^>]+>', ' ', text): from a "<", the tag runs to the next ">"
\* and holds at least one character between them; "<>" is no tag.
\* TagEnd(t, i): the position of the ">" closing a tag opened at i, else 0.
TagEnd(t, i) ==
    LET closes == {j \in (i + 1)..Len(t) : t[j] = ">"}
        j == IF closes = {} THEN 0
             ELSE CHOOSE c \in closes : \A d \in closes : c <= d
    IN  IF t[i] = "<" /\ j >= i + 2 THEN j ELSE 0

\* the tags deleted instead of replaced by a space
strip_tags_NoSpace(t) ==
    LET F[i \in 1..(Len(t) + 1)] ==
            IF i > Len(t) THEN <<>>
            ELSE With(TagEnd(t, i),
                      LAMBDA j : IF j # 0 THEN F[j + 1]
                                 ELSE <<t[i]>> \o F[i + 1])
    IN  F[1]

strip_tags(t) ==
    LET F[i \in 1..(Len(t) + 1)] ==
            IF i > Len(t) THEN <<>>
            ELSE With(TagEnd(t, i),
                      LAMBDA j : IF j # 0 THEN <<" ">> \o F[j + 1]
                                 ELSE <<t[i]>> \o F[i + 1])
    IN  F[1]

\* lines 123-136: the words clean_text is given for a fetched text
normalize(t) == With(IF is_html(t) THEN strip_tags(t) ELSE t, clean_text)

(***************************************************************************)
(* The store: save_to_db and search_local                                  *)
(***************************************************************************)
\* LOWER() of SQLite: only the ASCII letters are folded
SqlLower(s) == MapSeq(s, AsciiToLower)

Line(kind, title, word, freq) ==
    [kind |-> kind, title |-> title, word |-> word, freq |-> freq]
Message(kind) == Line(kind, <<>>, <<>>, 0)

WordRows(title, ranking) ==
    [i \in 1..Len(ranking) |->
        [title |-> title, word |-> ranking[i][1], frequency |-> ranking[i][2]]]

\* the IntegrityError caught and dropped without a word
save_to_db_Silent(title, ranking) ==
    IF title \in Books
    THEN [Books   |-> Books,
          Words   |-> Words,
          save    |-> "conflict",
          printed |-> <<>>,
          io      |-> <<"insert_books">>]
    ELSE [Books   |-> Books \cup {title},
          Words   |-> Words \o WordRows(title, ranking),
          save    |-> "committed",
          printed |-> <<>>,
          io      |-> <<"insert_books">>
                      \o [i \in 1..Len(ranking) |-> "insert_words"]
                      \o <<"commit">>]

\* save_to_db(title, top_words): the INSERT into Books raises IntegrityError
\* when the primary key exists (BINARY collation: the exact string), and then
\* nothing is written and the error line is appended to `output`.
save_to_db(title, ranking) ==
    IF title \in Books
    THEN [Books   |-> Books,
          Words   |-> Words,
          save    |-> "conflict",
          printed |-> <<Line("conflict", title, <<>>, 0)>>,
          io      |-> <<"insert_books">>]
    ELSE [Books   |-> Books \cup {title},
          Words   |-> Words \o WordRows(title, ranking),
          save    |-> "committed",
          printed |-> <<>>,
          io      |-> <<"insert_books">>
                      \o [i \in 1..Len(ranking) |-> "insert_words"]
                      \o <<"commit">>]

\* WHERE LOWER(title) = LOWER(?)
MatchingRows(title) ==
    SelectSeq(Words, LAMBDA r : SqlLower(r.title) = SqlLower(title))

RemoveAt(s, i) == SubSeq(s, 1, i - 1) \o SubSeq(s, i + 1, Len(s))

\* ORDER BY frequency DESC: SQL fixes no order among rows of equal frequency,
\* so every ordering with non-increasing frequency is a possible answer.
RECURSIVE OrderByFrequencyDesc(_)
OrderByFrequencyDesc(rows) ==
    IF rows = <<>> THEN {<<>>}
    ELSE LET top == {i \in 1..Len(rows) :
                        \A j \in 1..Len(rows) : rows[j][2] <= rows[i][2]}
         IN  UNION {{<<rows[i]>> \o rest :
                        rest \in With(RemoveAt(rows, i), OrderByFrequencyDesc)} :
                    i \in top}

\* search_local(title): the answers cur.fetchall() can give
search_local(title) ==
    With(MatchingRows(title),
         LAMBDA rows : With([i \in 1..Len(rows) |->
                               <<rows[i].word, rows[i].frequency>>],
                            OrderByFrequencyDesc))

(***************************************************************************)
(* Inputs                                                                  *)
(***************************************************************************)
MaxBooks == 2

HtmlOpen == <<"<","h","t","m","l",">">>
StrongTitle == <<"<","s","t","r","o","n","g",">","T","i","t","l","e",
                 "<","/","s","t","r","o","n","g",">",":">>
Aaaa == <<"a","a","a","a">>
Bbbb == <<"b","b","b","b">>

\* texts a URL can deliver
PlainTwo == Aaaa \o <<" ">> \o Bbbb \o <<" ">> \o Aaaa
PlainShort == <<"a","b"," ","c">>
HtmlTitled == HtmlOpen \o StrongTitle \o <<" ","é","-","B"," ">> \o PClose \o Aaaa
HtmlBlank == <<"<","H","T","M","L",">">> \o StrongTitle \o <<" ">> \o PClose
                 \o <<"a","b">>
HtmlUntitled == HtmlOpen \o Bbbb \o <<"<","b",">">> \o Aaaa
PlainPattern == StrongTitle \o <<"a","b">> \o PClose

Texts == {PlainTwo, PlainShort, HtmlTitled, HtmlBlank, HtmlUntitled, PlainPattern}

\* urlopen(url) followed by read().decode('utf-8'): a text, or an exception
Responses == {[ok |-> TRUE, text |-> t] : t \in Texts}
                 \cup {[ok |-> FALSE, text |-> <<>>]}

\* what the user can have typed into url_entry, and into title_entry before
\* pressing "Fetch Book from URL" and before pressing "Search Title in Database"
UrlEntries == {<<>>, <<" ">>, <<"h","/","É","-","B"," ">>, <<"h","/">>}
HintEntries == {<<>>, <<" ">>, <<" ","É","-","b">>}
SearchEntries == {<<>>, <<" ">>, <<" ","É","-","b">>, <<"É","-","B">>,
                  <<"é","-","b">>, <<"z">>}

(***************************************************************************)
(* The handlers                                                            *)
(***************************************************************************)
NoCall == [op |-> "none", title_entry |-> <<>>, url_entry |-> <<>>,
           response |-> [ok |-> FALSE, text |-> <<>>], outcome |-> "none",
           title |-> <<>>, top_words |-> <<>>, save |-> "none", io |-> <<>>]

RankingLines(ranking) ==
    [i \in 1..Len(ranking) |-> Line("word", <<>>, ranking[i][1], ranking[i][2])]

\* line 129 without its `and not title`: the HTML title overrides the hint
resolve_title_HtmlFirst(title0, url, t) ==
    With(IF is_html(t) /\ title_search(t).found
         THEN strip(title_search(t).group) ELSE title0,
         LAMBDA title : IF title = <<>> THEN url_basename(url) ELSE title)

\* lines 123-141: the title fetch_url settles on
resolve_title(title0, url, t) ==
    With(IF is_html(t) /\ title_search(t).found /\ title0 = <<>>
         THEN strip(title_search(t).group) ELSE title0,
         LAMBDA title : IF title = <<>> THEN url_basename(url) ELSE title)

\* lines 121-141: what fetch_url computes from the fetched text
analyse(title0, url, t) ==
    [title |-> resolve_title(title0, url, t),
     top_words |-> With(normalize(t), count_top_10)]

\* analyse tabulated over the inputs of the model (evaluated once)
Analysis ==
    [title0 \in {strip(e) : e \in HintEntries},
     url \in {strip(e) : e \in UrlEntries},
     t \in Texts |-> analyse(title0, url, t)]

\* lines 116-119 without the `return`: a failed fetch goes on with no text
fetched_NoReturn(url, title0, response) ==
    With(analyse(title0, url, response.text), LAMBDA a :
    With(save_to_db(a.title, a.top_words), LAMBDA db :
        [outcome |-> IF response.ok THEN "shown" ELSE "fetch_error",
         title |-> a.title, top_words |-> a.top_words,
         save |-> db.save, io |-> <<"urlopen">> \o db.io,
         output |-> <<Line("header", a.title, <<>>, 0)>>
                       \o RankingLines(a.top_words) \o db.printed,
         Books |-> db.Books, Words |-> db.Words]))

\* lines 113-148: fetch_url once the URL is known not to be empty, for one
\* answer of urlopen
fetched(url, title0, response) ==
    IF ~response.ok
    THEN [outcome |-> "fetch_error", title |-> <<>>, top_words |-> <<>>,
          save |-> "none", io |-> <<"urlopen">>,
          output |-> <<Message("fetch_failed")>>,
          Books |-> Books, Words |-> Words]
    ELSE With(Analysis[title0, url, response.text], LAMBDA a :
         With(save_to_db(a.title, a.top_words), LAMBDA db :
             [outcome |-> "shown", title |-> a.title, top_words |-> a.top_words,
              save |-> db.save, io |-> <<"urlopen">> \o db.io,
              output |-> <<Line("header", a.title, <<>>, 0)>>
                            \o RankingLines(a.top_words) \o db.printed,
              Books |-> db.Books, Words |-> db.Words]))

\* fetch_url(), the handler of the button "Fetch Book from URL"
fetch_url(url_entry, title_entry, response) ==
    With(strip(url_entry), LAMBDA url :
        IF url = <<>>
        THEN [outcome |-> "invalid", title |-> <<>>, top_words |-> <<>>,
              save |-> "none", io |-> <<>>,
              output |-> <<Message("paste_url")>>,
              Books |-> Books, Words |-> Words]
        ELSE fetched(url, strip(title_entry), response))

\* urlopen is only reached with a URL that is not empty
ResponsesFor(url_entry) ==
    IF strip(url_entry) = <<>> THEN {[ok |-> FALSE, text |-> <<>>]} ELSE Responses

FetchUrl ==
    \E url_entry \in UrlEntries, title_entry \in HintEntries :
        \E response \in ResponsesFor(url_entry) :
            \E r \in {fetch_url(url_entry, title_entry, response)} :
                /\ pc = "gui"
                /\ Cardinality(r.Books) <= MaxBooks
                /\ Books' = r.Books
                /\ Words' = r.Words
                /\ output' = r.output
                /\ saved' = IF r.save = "committed"
                            THEN [t \in DOMAIN saved \cup {r.title} |->
                                     IF t = r.title THEN r.top_words ELSE saved[t]]
                            ELSE saved
                /\ call' = [op |-> "fetch", title_entry |-> title_entry,
                            url_entry |-> url_entry, response |-> response,
                            outcome |-> r.outcome, title |-> r.title,
                            top_words |-> r.top_words, save |-> r.save,
                            io |-> r.io]
                /\ UNCHANGED <<pc, tokens, top_words, text, words>>

\* lines 90-97: search_title once the title is known not to be empty, for one
\* answer of search_local
searched(title, result) ==
    IF result # <<>>
    THEN [outcome |-> "found", title |-> title, result |-> result,
          io |-> <<"select">>,
          output |-> <<Line("header", title, <<>>, 0)>> \o RankingLines(result)]
    ELSE [outcome |-> "not_found", title |-> title, result |-> result,
          io |-> <<"select">>, output |-> <<Message("not_found")>>]

\* search_title(), the handler of the button "Search Title in Database"
search_title(title_entry, result) ==
    With(strip(title_entry), LAMBDA title :
        IF title = <<>>
        THEN [outcome |-> "invalid", title |-> title, result |-> <<>>,
              io |-> <<>>, output |-> <<Message("enter_title")>>]
        ELSE searched(title, result))

\* search_local is only reached with a title that is not empty
ResultsFor(title_entry) ==
    With(strip(title_entry), LAMBDA title :
        IF title = <<>> THEN {<<>>} ELSE search_local(title))

SearchTitle ==
    \E title_entry \in SearchEntries :
        \E result \in ResultsFor(title_entry) :
            \E r \in {search_title(title_entry, result)} :
                /\ pc = "gui"
                /\ output' = r.output
                /\ call' = [op |-> "search", title_entry |-> title_entry,
                            url_entry |-> <<>>,
                            response |-> [ok |-> FALSE, text |-> <<>>],
                            outcome |-> r.outcome, title |-> r.title,
                            top_words |-> r.result, save |-> "none", io |-> r.io]
                /\ UNCHANGED <<Books, Words, saved, pc, tokens, top_words, text, words>>

Init ==
    /\ Books = {}
    /\ Words = <<>>
    /\ output = <<>>
    /\ call = NoCall
    /\ saved = <<>>
    /\ pc = "gui"
    /\ tokens = <<>>
    /\ top_words = <<>>
    /\ text = <<>>
    /\ words = <<>>

Next == FetchUrl \/ SearchTitle

Spec == Init /\ [][Next]_vars

(***************************************************************************)
(* count_top_10 on its own: every bounded word list of the shape           *)
(* (some of ten distinct long words) followed by a free tail               *)
(***************************************************************************)
MaxTail == 3

LongWord(k) == <<"w", "w", "w", AsciiLower[k]>>
TenWords == [k \in 1..10 |-> LongWord(k)]
TailWords == {LongWord(1), LongWord(10), LongWord(11), LongWord(12),
              <<"a","b","c">>}

SeqsUpTo(S, n) == UNION {[1..k -> S] : k \in 0..n}

WordLists == {SubSeq(TenWords, 1, k) \o tail :
                 k \in 0..10, tail \in SeqsUpTo(TailWords, MaxTail)}

RankInit ==
    /\ Books = {} /\ Words = <<>> /\ output = <<>> /\ call = NoCall
    /\ saved = <<>>
    /\ pc = "input"
    /\ tokens \in WordLists
    /\ top_words = <<>>
    /\ text = <<>>
    /\ words = <<>>

Rank ==
    /\ pc = "input"
    /\ pc' = "done"
    /\ top_words' = count_top_10(tokens)
    /\ UNCHANGED <<Books, Words, output, call, saved, tokens, text, words>>

RankSpec == RankInit /\ [][Rank]_vars

(***************************************************************************)
(* The normalisation of a fetched text on its own: every text of at most   *)
(* MaxBody characters, alone, behind "B-<HTML>" and before "<html"         *)
(***************************************************************************)
MaxBody == 4

BodyChars == {"a", "B", " ", "<", ">"}
Bodies == SeqsUpTo(BodyChars, MaxBody)
FetchedTexts == Bodies
                    \cup {<<"B","-","<","H","T","M","L",">">> \o b : b \in Bodies}
                    \cup {b \o HtmlMarker : b \in Bodies}

NormInit ==
    /\ Books = {} /\ Words = <<>> /\ output = <<>> /\ call = NoCall
    /\ saved = <<>>
    /\ pc = "input"
    /\ tokens = <<>>
    /\ top_words = <<>>
    /\ text \in FetchedTexts
    /\ words = <<>>

Normalize ==
    /\ pc = "input"
    /\ pc' = "done"
    /\ words' = normalize(text)
    /\ UNCHANGED <<Books, Words, output, call, saved, tokens, top_words, text>>

NormSpec == NormInit /\ [][Normalize]_vars

(***************************************************************************)
(* Properties of count_top_10 (under RankSpec)                             *)
(***************************************************************************)
Occurrences(w) == Cardinality({k \in DOMAIN tokens : tokens[k] = w})
FirstAt(w) ==
    CHOOSE k \in DOMAIN tokens :
        tokens[k] = w /\ \A j \in 1..(k - 1) : tokens[j] # w
Qualifying == {tokens[k] : k \in {j \in DOMAIN tokens : Len(tokens[j]) >= 4}}
Ranked == {top_words[i][1] : i \in DOMAIN top_words}
\* v comes before w in the reference order: more occurrences, or as many and
\* seen first
Ahead(v, w) ==
    \/ Occurrences(v) > Occurrences(w)
    \/ Occurrences(v) = Occurrences(w) /\ FirstAt(v) < FirstAt(w)

\* C5: the result of count_top_10 has at most 10 entries, no word twice and
\* non-increasing frequencies, and is empty (no error) when no token has 4
\* letters or more.
C5_RankingShape ==
    pc = "done" =>
        /\ Len(top_words) <= 10
        /\ \A i, j \in DOMAIN top_words :
               i # j => top_words[i][1] # top_words[j][1]
        /\ \A i \in 1..(Len(top_words) - 1) :
               top_words[i][2] >= top_words[i + 1][2]
        /\ (Qualifying = {} => top_words = <<>>)

\* more than ten distinct long words went in and ten came out
C5_Witness ==
    /\ pc = "done"
    /\ Cardinality(Qualifying) > 10
    /\ Len(top_words) = 10

\* C6: count_top_10 is the reference ranking: the distinct tokens of 4 letters
\* or more, each with its number of occurrences, ordered by count descending
\* and by first occurrence among equal counts, cut to the first 10; so no
\* short token is ranked and no omitted word is ahead of a ranked one.
C6_RankingIsReference ==
    pc = "done" =>
        /\ Len(top_words) = Min(10, Cardinality(Qualifying))
        /\ \A i \in DOMAIN top_words :
               /\ top_words[i][1] \in Qualifying
               /\ top_words[i][2] = Occurrences(top_words[i][1])
        /\ \A i, j \in DOMAIN top_words :
               i < j => Ahead(top_words[i][1], top_words[j][1])
        /\ \A w \in Qualifying \ Ranked :
               \A i \in DOMAIN top_words : Ahead(top_words[i][1], w)

\* a short token went in, a word was repeated, two ranked words tie, and a
\* long word was cut off
C6_Witness ==
    /\ pc = "done"
    /\ \E k \in DOMAIN tokens : Len(tokens[k]) < 4
    /\ Qualifying \ Ranked # {}
    /\ top_words[1][2] >= 2
    /\ top_words[9][2] = top_words[10][2]

(***************************************************************************)
(* Properties of the normalisation (under NormSpec)                        *)
(***************************************************************************)
\* position i of t lies in a tag: between a "<" that no earlier unclosed "<"
\* precedes and the first ">" behind it, with something in between
InTag(t, i) ==
    \E l \in 1..i, j \in i..Len(t) :
        /\ t[l] = "<" /\ t[j] = ">" /\ j >= l + 2
        /\ \A m \in l..(j - 1) : t[m] # ">"
        /\ \A k \in 1..(l - 1) :
               t[k] = "<" => \E m \in (k + 1)..(l - 1) : t[m] = ">"

Separates(t, i) == IsSpace(t[i]) \/ (is_html(t) /\ InTag(t, i))
IsKept(t, i) == IsAsciiLetter(t[i]) /\ ~(is_html(t) /\ InTag(t, i))
Joined(t, i, k) == \A m \in i..k : ~Separates(t, m)
Nth(S, n) == CHOOSE i \in S : Cardinality({j \in S : j <= i}) = n

TokenStarts(t) ==
    {i \in 1..Len(t) :
        IsKept(t, i) /\ \A h \in 1..(i - 1) : ~(IsKept(t, h) /\ Joined(t, h, i))}
TokenLetters(t, i) == {k \in i..Len(t) : IsKept(t, k) /\ Joined(t, i, k)}
TokenFrom(t, i) ==
    [n \in 1..Cardinality(TokenLetters(t, i)) |->
        AsciiToLower(t[Nth(TokenLetters(t, i), n)])]
\* the letters of t outside tags, lower-cased, in order, cut where whitespace
\* or a tag stands between two of them
ReferenceTokens(t) ==
    [n \in 1..Cardinality(TokenStarts(t)) |-> TokenFrom(t, Nth(TokenStarts(t), n))]

\* C9: the normalisation yields non-empty tokens of the letters a-z only, in
\* the order of the source; in a text holding "<html" every tag counts as a
\* space, so the text on both sides of a tag stays in separate tokens, while
\* every other character that is no letter is deleted without cutting a token.
C9_Normalize ==
    pc = "done" =>
        /\ \A n \in DOMAIN words :
               /\ words[n] # <<>>
               /\ \A k \in DOMAIN words[n] : IsAsciiLower(words[n][k])
        /\ words = ReferenceTokens(text)

\* an HTML text without whitespace whose tag alone cuts it into two tokens,
\* and a punctuation mark that cuts nothing
C9_Witness ==
    /\ pc = "done"
    /\ is_html(text)
    /\ \A i \in DOMAIN text : ~IsSpace(text[i])
    /\ \E i \in DOMAIN text : text[i] = "-" /\ ~InTag(text, i)
    /\ Len(words) = 2

(***************************************************************************)
(* Properties of the store and of the handlers (under Spec)                *)
(***************************************************************************)
PairSet(r) == {r[i] : i \in DOMAIN r}
IsSortedDesc(r) == \A i \in 1..(Len(r) - 1) : r[i][2] >= r[i + 1][2]

\* equal but for the case of letters
SameIgnoringCase(a, b) == PyLower(a) = PyLower(b)

\* the titles a caller can ask for
Askable == {strip(e) : e \in SearchEntries \cup HintEntries} \cup Books

\* load(t) gives exactly the pairs of ranking r
LoadGives(t, r) ==
    \A res \in search_local(t) : PairSet(res) = PairSet(r) /\ Len(res) = Len(r)

Saving == call.op = "fetch" /\ call.save = "committed"
Conflicting == call.op = "fetch" /\ call.save = "conflict"

\* C1: a save of a title that an earlier save stored signals the conflict,
\* writes no row of Books and no row of Words, and a load of the title
\* afterwards still gives exactly the pairs of the first ranking.
C1_ConflictKeepsFirstRanking ==
    [][Conflicting' =>
          /\ Books' = Books
          /\ Words' = Words
          /\ LoadGives(call.title, saved[call.title])']_vars

\* C2: on a store with no title equal to t but for letter case,
\* save(t, r) and then load(t'), t' equal to t but for letter case, gives
\* exactly the pairs of r by non-increasing frequency.
C2_RoundTripAnyCase ==
    (Saving /\ \A b \in Books \ {call.title} : ~SameIgnoringCase(b, call.title))
        => \A t \in Askable :
               SameIgnoringCase(t, call.title)
                   => /\ LoadGives(t, call.top_words)
                      /\ \A res \in search_local(t) : IsSortedDesc(res)

\* C3: a search answers "not found" exactly when no stored title equals the
\* requested one but for case; so every saved title, whatever its ranking, is
\* answered as found.
C3_NotFoundIffAbsent ==
    (call.op = "search" /\ call.outcome \in {"found", "not_found"})
        => (call.outcome = "not_found"
                <=> ~\E b \in Books : SameIgnoringCase(b, call.title))

\* C4: a saved ranking is never changed: every later load of its title gives
\* the pairs that were saved, at most 10 of them with distinct words.
C4_RecordImmutable ==
    \A t \in DOMAIN saved :
        /\ LoadGives(t, saved[t])
        /\ \A res \in search_local(t) :
               /\ Len(res) <= 10
               /\ \A i, j \in DOMAIN res : i # j => res[i][1] # res[j][1]

\* the title the claim C7 names, and the one of the amended claim
C7_ClaimedTitle ==
    [h \in HintEntries, u \in UrlEntries, t \in Texts |->
        IF strip(h) # <<>> THEN strip(h)
        ELSE IF is_html(t) /\ title_search(t).found
             THEN strip(title_search(t).group)
             ELSE url_basename(strip(u))]
C7_AmendedTitle ==
    [h \in HintEntries, u \in UrlEntries, t \in Texts |->
        IF strip(h) # <<>> THEN strip(h)
        ELSE IF is_html(t) /\ title_search(t).found
                /\ strip(title_search(t).group) # <<>>
             THEN strip(title_search(t).group)
             ELSE url_basename(strip(u))]

Shown == call.op = "fetch" /\ call.outcome = "shown"

\* the title shown in the header is the one given to save_to_db
ShownTitleIsSavedTitle ==
    /\ output[1] = Line("header", call.title, <<>>, 0)
    /\ call.save = "committed"
           => call.title \in Books /\ call.title \in DOMAIN saved
    /\ call.save = "conflict"
           => output[Len(output)] = Line("conflict", call.title, <<>>, 0)

\* C7 as claimed: the title is the trimmed hint when that is not empty, else
\* the trimmed text the Title pattern captures in an HTML text, else the last
\* segment of the URL; and it is the title both shown and saved.
C7_TitlePriority ==
    Shown =>
        /\ call.title = C7_ClaimedTitle[call.title_entry, call.url_entry,
                                        call.response.text]
        /\ ShownTitleIsSavedTitle

\* C7 as amended: the captured text is used when it is not blank; a blank
\* capture falls through to the last segment of the URL.
C7_TitlePriorityNonBlank ==
    Shown =>
        /\ call.title = C7_AmendedTitle[call.title_entry, call.url_entry,
                                        call.response.text]
        /\ ShownTitleIsSavedTitle

\* no hint: the title comes from the HTML, with its case and punctuation
C7_Witness ==
    /\ Shown
    /\ strip(call.title_entry) = <<>>
    /\ is_html(call.response.text)
    /\ title_search(call.response.text).found
    /\ call.title = strip(title_search(call.response.text).group)
    /\ call.title # <<>>
    /\ call.title # url_basename(strip(call.url_entry))
    /\ <<call.title>> # normalize(call.title)

\* C8: when save_to_db signals the conflict, the handler has not failed: the
\* output holds the resolved title, the ranking just computed and, as a line
\* of its own kind, the conflict.
C8_ConflictIsShownWithRanking ==
    Conflicting =>
        /\ call.outcome = "shown"
        /\ call.title = Analysis[strip(call.title_entry), strip(call.url_entry),
                                 call.response.text].title
        /\ call.top_words = Analysis[strip(call.title_entry),
                                     strip(call.url_entry),
                                     call.response.text].top_words
        /\ output = <<Line("header", call.title, <<>>, 0)>>
                        \o RankingLines(call.top_words)
                        \o <<Line("conflict", call.title, <<>>, 0)>>

\* a conflicting fetch that computed a ranking of two pairs, other than the
\* stored one
C8_Witness ==
    /\ Conflicting
    /\ Len(call.top_words) = 2
    /\ call.top_words # saved[call.title]

\* C10: a fetch with an empty URL and a search with an empty title do no I/O
\* at all; a failed fetch asks the network once and the store never; each
\* leaves Books and Words as they were.
Rejected ==
    call.outcome = "invalid" \/ (call.op = "fetch" /\ call.outcome = "fetch_error")

C10_FailureLeavesStore ==
    [][Rejected' =>
          /\ Books' = Books
          /\ Words' = Words
          /\ saved' = saved
          /\ call'.save = "none"
          /\ call'.outcome = "invalid" => call'.io = <<>>
          /\ call'.outcome = "fetch_error" => call'.io = <<"urlopen">>]_vars

\* a fetch failed while books were stored
C10_Witness ==
    /\ call.op = "fetch"
    /\ call.outcome = "fetch_error"
    /\ Books # {}

\* C11: every save_to_db that fetch_url makes is given a title that is not
\* empty, so no book with the empty title is ever stored.
C11_SavedTitleNotEmpty ==
    /\ (call.op = "fetch" /\ call.save # "none") => call.title # <<>>
    /\ <<>> \notin Books

====
